---- MODULE Spec2Model ----
(***************************************************************************)
(* The chat session store (useChatStore), the authenticated request client *)
(* (ApiClient) and the title derivation (generateSessionTitle) of the RAG  *)
(* front end, as state machines.                                           *)
(*                                                                         *)
(*   Spec        the chat store driven through the chat input, with every  *)
(*               ask request going through the client's retry machine      *)
(*   SpecClient  one API call of the request client at a time              *)
(*   SpecTitle   generateSessionTitle over every text up to MaxTextLen     *)
(*   SpecSessions the store driven through the sidebar and the chat input  *)
(*   SpecStore   sendMessage called on the store with any text             *)
(*   SpecSettings the settings and the copy saved in localStorage          *)
(*   SpecFeedback one message bubble and the feedback given on it          *)
(***************************************************************************)
EXTENDS Integers, Sequences, FiniteSets, TLC

VARIABLES
    \* ---- useChatStore (zustand state)
    sessions,         \* Session[]
    currentSession,   \* Session | null (NoSession)
    messages,         \* Message[]
    isLoading,        \* boolean
    error,            \* string | null (NoError)
    abortController,  \* the AbortController of a send (its number), or 0 for null
    \* ---- useAuthStore
    token,            \* string | null (NoToken)
    \* ---- the sendMessage invocations, one record per invocation
    sends,
    \* ---- environment
    clock,            \* what new Date() last returned
    backend,          \* the number of sessions the backend has created
    last,             \* the completion of a send the last step brought, if any (observation only)
    \* ---- SpecClient: the API call under way
    call,
    \* ---- SpecTitle: the text under derivation
    text,
    \* ---- the session operations under way (loadSessions, selectSession,
    \*      renameSession, deleteSession), one record per invocation
    ops,
    \* ---- useChatStore.settings and the localStorage item it is saved under
    settings,
    storage,
    \* ---- SpecFeedback: the MessageBubble on screen, its feedback calls
    bubble

storeVars  == <<sessions, currentSession, messages, isLoading, error, abortController>>
envVars    == <<token, sends, clock, backend, last>>
uiVars     == <<settings, storage, bubble>>
vars       == <<storeVars, envVars, call, text, ops, uiVars>>

----------------------------------------------------------------------------
(* Bounds of the model *)

MaxSends    == 3   \* sendMessage invocations in one behaviour
MaxSessions == 1   \* sessions the backend creates in one behaviour
MaxTextLen  == 9   \* length of the texts of SpecTitle
MaxFeedback == 2   \* handleFeedback invocations on one bubble

----------------------------------------------------------------------------
(* Characters and texts. A text is a tuple of one-character strings. *)

LowerCase == <<"a","b","c","d","e","f","g","h","i","j","k","l","m",
               "n","o","p","q","r","s","t","u","v","w","x","y","z">>
UpperCase == <<"A","B","C","D","E","F","G","H","I","J","K","L","M",
               "N","O","P","Q","R","S","T","U","V","W","X","Y","Z">>
Digits    == {"0","1","2","3","4","5","6","7","8","9"}

Range(s) == { s[i] : i \in DOMAIN s }

Letters == Range(LowerCase) \cup Range(UpperCase)

\* JavaScript's \w without the u flag: [A-Za-z0-9_]
IsWordChar(c) == c \in Letters \cup Digits \cup {"_"}

\* JavaScript's \s, as far as the texts of the model go
IsSpace(c) == c \in {" ", "\n", "\t"}

\* String.prototype.toUpperCase on one character
ToUpperCase(c) ==
    IF \E i \in DOMAIN LowerCase : LowerCase[i] = c
    THEN UpperCase[CHOOSE i \in DOMAIN LowerCase : LowerCase[i] = c]
    ELSE c

\* text.match(/\w+/g) || [] : the maximal runs of word characters, left to right.
\* cur is the run being read, acc the runs already closed.
RECURSIVE ScanWords(_, _, _, _)
ScanWords(t, i, cur, acc) ==
    IF i > Len(t)
    THEN IF cur = <<>> THEN acc ELSE Append(acc, cur)
    ELSE IF IsWordChar(t[i])
         THEN ScanWords(t, i + 1, Append(cur, t[i]), acc)
         ELSE ScanWords(t, i + 1, <<>>, IF cur = <<>> THEN acc ELSE Append(acc, cur))

MatchWords(t) == ScanWords(t, 1, <<>>, <<>>)

\* Array.prototype.join(' ')
RECURSIVE JoinWords(_)
JoinWords(ws) ==
    IF ws = <<>> THEN <<>>
    ELSE IF Len(ws) = 1 THEN ws[1]
    ELSE ws[1] \o <<" ">> \o JoinWords(Tail(ws))

\* s.replace(/(^|\s)\S/g, m => m.toUpperCase()): a non-space character at the
\* start of the string or right after a space character is upper-cased.
CapitalizeWords(s) ==
    [ i \in 1..Len(s) |->
        IF ~IsSpace(s[i]) /\ (i = 1 \/ IsSpace(s[i - 1]))
        THEN ToUpperCase(s[i]) ELSE s[i] ]

Min(a, b) == IF a < b THEN a ELSE b

NewChat == <<"N","e","w"," ","C","h","a","t">>

\* (variant: three words are kept, not four)
TitleWordCountThree(n) ==
    LET count == Min(3, n) IN IF count < 3 THEN n ELSE count

\* Math.min(4, words.length), and the slice bound chosen from it
TitleWordCount(n) ==
    LET count == Min(4, n) IN IF count < 3 THEN n ELSE count

generateSessionTitle(t) ==
    LET words == MatchWords(t) IN
    IF Len(words) = 0 THEN NewChat
    ELSE CapitalizeWords(JoinWords(SubSeq(words, 1, TitleWordCount(Len(words)))))

----------------------------------------------------------------------------
(* The request client: ApiClient of lib/api *)

NoToken == "null"
Tokens  == {"t1", "t2"}

\* The token a login yields in the store's behaviours
LoginTokens == {"t1"}

NoData == [answer |-> "", citations |-> <<>>, query_id |-> ""]

\* A Response as the client reads it: status, whether the body parses as JSON,
\* the body's message field ("" when it has none), the X-Request-ID header
\* ("" when absent) and the parsed payload.
Response(status, json, message, requestId, data) ==
    [status |-> status, json |-> json, message |-> message,
     requestId |-> requestId, data |-> data]

NoResponse == Response(0, FALSE, "", "", NoData)

\* Response.ok
IsOk(res) == res.status >= 200 /\ res.status <= 299

\* What a call settles with: kind "ok" carries data (isNull for a null result),
\* kind "err" carries the thrown value. status 0 stands for no status field.
NoErr == [name |-> "", message |-> "", status |-> 0, correlationId |-> ""]
NoResult == [kind |-> "none", isNull |-> FALSE, data |-> NoData, err |-> NoErr]
Resolved(data) == [kind |-> "ok", isNull |-> FALSE, data |-> data, err |-> NoErr]
ResolvedNull == [kind |-> "ok", isNull |-> TRUE, data |-> NoData, err |-> NoErr]
Rejected(e) == [kind |-> "err", isNull |-> FALSE, data |-> NoData, err |-> e]

AbortError   == [name |-> "AbortError", message |-> "The user aborted a request.",
                 status |-> 0, correlationId |-> ""]
NetworkError == [name |-> "TypeError", message |-> "Failed to fetch",
                 status |-> 0, correlationId |-> ""]
SyntaxError  == [name |-> "SyntaxError", message |-> "Unexpected token",
                 status |-> 0, correlationId |-> ""]

\* (variant: a 401 is left to the retry and not turned into an error)
HandleResponseNo401(res) ==
    IF ~IsOk(res) /\ res.status # 401
    THEN Rejected([name |-> "",
                   message |-> IF ~res.json THEN "Network error"
                               ELSE IF res.message # "" THEN res.message
                               ELSE "Request failed",
                   status |-> res.status,
                   correlationId |-> res.requestId])
    ELSE IF res.status = 204 THEN ResolvedNull
    ELSE IF ~res.json THEN Rejected(SyntaxError)
    ELSE Resolved(res.data)

\* (variant: no test for 204, every 2xx body goes to response.json())
HandleResponseParses204(res) ==
    IF ~IsOk(res)
    THEN Rejected([name |-> "",
                   message |-> IF ~res.json THEN "Network error"
                               ELSE IF res.message # "" THEN res.message
                               ELSE "Request failed",
                   status |-> res.status,
                   correlationId |-> res.requestId])
    ELSE IF ~res.json THEN Rejected(SyntaxError)
    ELSE Resolved(res.data)

\* ApiClient.handleResponse
handleResponse(res) ==
    IF ~IsOk(res)
    THEN Rejected([name |-> "",
                   message |-> IF ~res.json THEN "Network error"
                               ELSE IF res.message # "" THEN res.message
                               ELSE "Request failed",
                   status |-> res.status,
                   correlationId |-> res.requestId])
    ELSE IF res.status = 204 THEN ResolvedNull
    ELSE IF ~res.json THEN Rejected(SyntaxError)
    ELSE Resolved(res.data)

\* tries = 2, the default of requestWithRetry's parameter
Tries == 2

\* (variant: the retry test lets the last try retry as well)
RetryOnLastTry(tries) == tries > 0

\* `tries > 1`, the test both retry branches of requestWithRetry make
RetryAllowed(tries) == tries > 1

\* One call of the client (get/post/...) with the requestWithRetry invocation
\* that is active in it.
\*   phase     "fetching": awaiting fetch; "delay": awaiting the 150 ms timer;
\*             "settled": the promise returned to the caller is settled
\*   tries     the tries argument of the active invocation
\*   auth      the token put in init.headers by getHeaders() (NoToken: no header)
\*   aborted   init.signal.aborted
\*   attempts  how many times fetch was invoked
\*   sent      per attempt, the token in the Authorization header
\*   current   per attempt, the token of the auth store at that moment
\*   log       per attempt, how it ended: a status, "neterr" or "abort"
\*   lateFetch fetch was invoked after the signal had fired
\*   res       the response the last fetch resolved with
\*   result    what the call settled with
IdleCall ==
    [phase |-> "idle", tries |-> 0, auth |-> NoToken, aborted |-> FALSE,
     attempts |-> 0, sent |-> <<>>, current |-> <<>>, log |-> <<>>,
     lateFetch |-> FALSE, res |-> NoResponse, result |-> NoResult]

\* getHeaders(): the token is read from the auth store here, once per call
getHeaders(tok) == tok

\* The headers a reissue sends: requestWithRetry passes the same init object on
RetryHeaders(c, tok) == c.auth

\* fetch(url, init) is invoked
IssueFetch(c, hdr, tok) ==
    [c EXCEPT !.phase = "fetching",
              !.attempts = @ + 1,
              !.sent = Append(@, hdr),
              !.current = Append(@, tok),
              !.lateFetch = @ \/ c.aborted]

Settle(c, r) == [c EXCEPT !.phase = "settled", !.result = r]

\* requestWithRetry, the catch block: fetch threw e
OnThrow(c, e) ==
    LET c1 == [c EXCEPT !.log = Append(@, IF e.name = "AbortError"
                                          THEN "abort" ELSE "neterr")] IN
    IF e.name = "AbortError" THEN Settle(c1, Rejected(e))
    ELSE IF RetryAllowed(c.tries)
         THEN [c1 EXCEPT !.phase = "delay", !.tries = @ - 1]
         ELSE Settle(c1, Rejected(e))

\* requestWithRetry, the try block after fetch resolved with res; the response
\* returned goes to handleResponse
OnResponse(c, res) ==
    LET c1 == [c EXCEPT !.log = Append(@, ToString(res.status)), !.res = res] IN
    IF res.status = 401 /\ RetryAllowed(c.tries)
    THEN [c1 EXCEPT !.phase = "delay", !.tries = @ - 1]
    ELSE Settle(c1, handleResponse(res))

\* get/post/...: headers from getHeaders(), then requestWithRetry(url, init).
\* fetch with a signal that has fired rejects with an AbortError at once.
StartCall(tok, aborted) ==
    LET c == IssueFetch([IdleCall EXCEPT !.tries = Tries,
                                         !.auth = getHeaders(tok),
                                         !.aborted = aborted],
                        getHeaders(tok), tok) IN
    IF aborted THEN OnThrow(c, AbortError) ELSE c

\* The 150 ms timer fired: requestWithRetry(url, init, tries - 1) runs
AfterDelay(c, tok) ==
    LET c1 == IssueFetch(c, RetryHeaders(c, tok), tok) IN
    IF c.aborted THEN OnThrow(c1, AbortError) ELSE c1

\* controller.abort(): the signal fires; a fetch under way rejects
OnAbort(c) ==
    LET c1 == [c EXCEPT !.aborted = TRUE] IN
    IF c.phase = "fetching" THEN OnThrow(c1, AbortError) ELSE c1


----------------------------------------------------------------------------
(* The chat store's data: Session, Message, and the texts of the model *)

\* null for a text field (no text is this tuple: its element is no character)
NullText == <<"null">>

\* null for the error field
NoError == "null"

Session(id, title, created, updated, lastMessage, lastMessageAt) ==
    [id |-> id, title |-> title, created_at |-> created, updated_at |-> updated,
     last_message |-> lastMessage, last_message_at |-> lastMessageAt]

\* null for currentSession
NoSession == Session(0, NullText, 0, 0, NullText, 0)

\* normalizeSession: session_title ?? 'New Chat', last_message ?? null,
\* last_message_at ?? null (0 stands for a null timestamp)
normalizeSession(s) ==
    Session(s.id,
            IF s.session_title = NullText THEN NewChat ELSE s.session_title,
            s.created_at, s.updated_at, s.last_message, s.last_message_at)

\* (variant: the collection is read from a field the answer does not have)
NormalizeCitationNoCollection(c) ==
    [id |-> c.id, filename |-> c.filename, page |-> c.page, snippet |-> c.snippet,
     collection |-> "", url |-> c.url]

\* The mapping of data.citations in sendMessage: collection_name becomes collection
NormalizeCitation(c) ==
    [id |-> c.id, filename |-> c.filename, page |-> c.page, snippet |-> c.snippet,
     collection |-> c.collection_name, url |-> c.url]

NormalizeCitations(cs) == [ k \in 1..Len(cs) |-> NormalizeCitation(cs[k]) ]

\* The user message sendMessage appends; now is Date.now()
UserMessage(content, now) ==
    [id |-> ToString(now), content |-> content, role |-> "user", timestamp |-> now,
     citations |-> <<>>, query_id |-> "", feedback |-> "null"]

\* The assistant message sendMessage builds from the answer
AssistantMessage(data, now) ==
    [id |-> IF data.query_id # "" THEN data.query_id ELSE ToString(now),
     content |-> data.answer, role |-> "assistant", timestamp |-> now,
     citations |-> NormalizeCitations(data.citations),
     query_id |-> data.query_id, feedback |-> "null"]

MsgSendFailed  == "Failed to send message."
MsgNoDocuments == "No indexed documents are available yet. Upload and index documents in Admin -> Collections."
MsgNoAccess    == "You don't have access to any collections. Contact an admin."

\* The error string the catch block of sendMessage records for a thrown value
SendErrorMessage(err) ==
    IF err.status = 404 THEN MsgNoDocuments
    ELSE IF err.status = 403 THEN MsgNoAccess
    ELSE MsgSendFailed

QRefund == <<"W","h","a","t"," ","i","s"," ","t","h","e"," ","r","e","f","u","n","d"," ",
             "p","o","l","i","c","y"," ","f","o","r"," ","d","a","m","a","g","e","d"," ",
             "g","o","o","d","s","?">>
QHi     == <<"h","i","!">>

\* What the user types in the chat input
Questions == {QRefund, QHi}

\* String.prototype.trim() is the empty string
IsBlank(t) == \A k \in DOMAIN t : IsSpace(t[k])

----------------------------------------------------------------------------
(* The backend's answers, as far as the model distinguishes them *)

RawCitation(id, filename, page) ==
    [id |-> id, filename |-> filename, page |-> page, snippet |-> "excerpt",
     collection_name |-> "policies", url |-> ""]

DataA == [answer |-> "Refunds are issued within 30 days.",
          citations |-> << RawCitation("c1", "refunds.pdf", 3),
                           RawCitation("c2", "returns.pdf", 7) >>,
          query_id |-> "q1"]
DataB == [answer |-> "No answer found.", citations |-> <<>>, query_id |-> ""]

R200A == Response(200, TRUE, "", "rid-1", DataA)
R200B == Response(200, TRUE, "", "", DataB)
R204  == Response(204, FALSE, "", "", NoData)
R401  == Response(401, TRUE, "Not authenticated", "rid-2", NoData)
R403  == Response(403, TRUE, "Forbidden", "rid-3", NoData)
R404  == Response(404, TRUE, "No documents", "", NoData)
R422  == Response(422, TRUE, "Question is too long", "rid-4", NoData)
R500  == Response(500, FALSE, "", "", NoData)
\* A 200 whose body is not JSON text, and a 502 whose JSON body has no message
R200X == Response(200, FALSE, "", "rid-5", NoData)
R502  == Response(502, TRUE, "", "rid-6", NoData)

ClientResponses == {R200A, R200B, R200X, R204, R401, R403, R404, R422, R500, R502}

----------------------------------------------------------------------------
(* Settings and their saved copy.  A number is counted in hundredths, so 5
   is 500, 0.5 is 50 and 0.7 is 70; the JSON text of a value is a tuple of
   characters. *)

\* baseSettings: topK 5, mmr 0.5, temperature 0.7, showImages true, compactMode false
baseSettings ==
    [topK |-> 500, mmr |-> 50, temperature |-> 70,
     showImages |-> TRUE, compactMode |-> FALSE]

\* The fields of the settings record that hold a number
NumberFields == {"topK", "mmr", "temperature"}

DigitChars == <<"0", "1", "2", "3", "4", "5", "6", "7", "8", "9">>

\* JSON.stringify of a whole number
RECURSIVE NaturalText(_)
NaturalText(n) ==
    IF n < 10 THEN <<DigitChars[n + 1]>>
    ELSE NaturalText(n \div 10) \o <<DigitChars[(n % 10) + 1]>>

\* JSON.stringify of a number: the shortest decimal text, no trailing zero
NumberText(n) ==
    LET whole == n \div 100
        frac  == n % 100
    IN  NaturalText(whole) \o
        (IF frac = 0 THEN <<>>
         ELSE IF frac % 10 = 0 THEN <<".", DigitChars[(frac \div 10) + 1]>>
         ELSE <<".", DigitChars[(frac \div 10) + 1], DigitChars[(frac % 10) + 1]>>)

TrueText  == <<"t", "r", "u", "e">>
FalseText == <<"f", "a", "l", "s", "e">>

\* JSON.stringify of one member's value; the field's type says which kind
StringifyValue(f, v) ==
    IF f \in NumberFields THEN NumberText(v)
    ELSE IF v THEN TrueText ELSE FalseText

\* JSON.stringify(settings): one member per field of the record
JsonStringify(record) ==
    [f \in DOMAIN record |-> StringifyValue(f, record[f])]

DigitValue(c) == CHOOSE d \in 0..9 : DigitChars[d + 1] = c

RECURSIVE NaturalValue(_)
NaturalValue(t) ==
    IF t = <<>> THEN 0
    ELSE NaturalValue(SubSeq(t, 1, Len(t) - 1)) * 10 + DigitValue(t[Len(t)])

\* JSON.parse of a number's text
ParseNumber(t) ==
    LET dots == {i \in 1..Len(t) : t[i] = "."}
    IN  IF dots = {} THEN NaturalValue(t) * 100
        ELSE LET dot  == CHOOSE i \in dots : TRUE
                 frac == SubSeq(t, dot + 1, Len(t))
             IN  NaturalValue(SubSeq(t, 1, dot - 1)) * 100
                 + (IF Len(frac) = 1 THEN NaturalValue(frac) * 10
                    ELSE NaturalValue(SubSeq(frac, 1, 2)))

\* JSON.parse of one member's value; the text says which kind
ParseValue(t) ==
    IF t = TrueText THEN TRUE
    ELSE IF t = FalseText THEN FALSE
    ELSE ParseNumber(t)

\* JSON.parse of an object's text
JsonParse(members) == [f \in DOMAIN members |-> ParseValue(members[f])]

\* { ...a, ...b }
Spread(a, b) ==
    [f \in (DOMAIN a) \cup (DOMAIN b) |-> IF f \in DOMAIN b THEN b[f] ELSE a[f]]

\* What localStorage holds under SETTINGS_KEY: nothing, a JSON object's
\* text, or a text JSON.parse throws on
NoMembers == [f \in {} |-> <<>>]
NoBlob      == [kind |-> "absent",  members |-> NoMembers]
GarbledBlob == [kind |-> "garbled", members |-> NoMembers]
Blob(members) == [kind |-> "text", members |-> members]

\* getStoredSettings(), over the item read from localStorage
getStoredSettings(raw) ==
    IF raw.kind = "absent" THEN baseSettings
    ELSE IF raw.kind = "garbled" THEN baseSettings
    ELSE Spread(baseSettings, JsonParse(raw.members))

\* What an earlier visit may have left under SETTINGS_KEY
StoredBlobs ==
    { NoBlob,
      GarbledBlob,
      Blob([topK |-> <<"8">>]),
      Blob([showImages |-> FalseText, temperature |-> <<"1", ".", "2">>]) }

\* No MessageBubble is on screen
NoBubble == [mounted |-> FALSE, query_id |-> "", feedback |-> "null",
             calls |-> <<>>, toast |-> "none"]

----------------------------------------------------------------------------
(* SpecClient: one call of the request client at a time *)

\* The state create() builds: useChatStore, lines 203-209
InitStore ==
    /\ sessions = <<>>
    /\ currentSession = NoSession
    /\ messages = <<>>
    /\ isLoading = FALSE
    /\ error = NoError
    /\ abortController = 0

\* The stores as created, nothing under way, over what localStorage holds
InitOver(raw) ==
    /\ InitStore
    /\ token = NoToken
    /\ sends = <<>>
    /\ clock = 0
    /\ backend = 0
    /\ last = <<>>
    /\ call = IdleCall
    /\ text = <<>>
    /\ ops = <<>>
    /\ storage = raw
    /\ settings = getStoredSettings(raw)
    /\ bubble = NoBubble

\* A first visit: nothing saved yet
Init == InitOver(NoBlob)

\* A later visit: the settings start from what an earlier visit left
InitStored == \E raw \in StoredBlobs : InitOver(raw)

clientFrame == <<storeVars, sends, clock, backend, last, text, ops, uiVars>>

\* A caller invokes apiClient.post(endpoint, data, {signal})
ClientCall ==
    /\ call.phase \in {"idle", "settled"}
    /\ call' = StartCall(token, FALSE)
    /\ UNCHANGED <<token, clientFrame>>

\* fetch resolves with a response
ClientRespond(res) ==
    /\ call.phase = "fetching"
    /\ call' = OnResponse(call, res)
    /\ UNCHANGED <<token, clientFrame>>

\* fetch rejects with a network error
ClientNetworkError ==
    /\ call.phase = "fetching"
    /\ call' = OnThrow(call, NetworkError)
    /\ UNCHANGED <<token, clientFrame>>

\* The caller's AbortController fires
ClientAbort ==
    /\ call.phase \in {"fetching", "delay"}
    /\ ~call.aborted
    /\ call' = OnAbort(call)
    /\ UNCHANGED <<token, clientFrame>>

\* The retry delay ran out
ClientTimer ==
    /\ call.phase = "delay"
    /\ call' = AfterDelay(call, token)
    /\ UNCHANGED <<token, clientFrame>>

\* The auth store's token is replaced (login, refresh, clearAuth)
ClientSetToken(t) ==
    /\ t # token
    /\ token' = t
    /\ UNCHANGED <<call, clientFrame>>

ClientNext ==
    \/ ClientCall
    \/ \E res \in ClientResponses : ClientRespond(res)
    \/ ClientNetworkError
    \/ ClientAbort
    \/ ClientTimer
    \/ \E t \in Tokens \cup {NoToken} : ClientSetToken(t)

SpecClient == Init /\ [][ClientNext]_vars

\* C3: once the caller's abort signal has fired, fetch is not invoked again for
\* that call, also when the signal fires during the retry delay (and an
\* AbortError from fetch settles the call whatever tries remain).
ClientNoFetchAfterAbort ==
    /\ ~call.lateFetch
    /\ (call.log # <<>> /\ call.log[Len(call.log)] = "abort") =>
           /\ call.phase = "settled"
           /\ call.result = Rejected(AbortError)

\* C4: fetch is invoked at most twice per call, and a second time only after a
\* 401 response or a network error that is no cancellation.
ClientAtMostTwoAttempts ==
    /\ call.attempts <= 2
    /\ Len(call.log) <= call.attempts
    /\ call.attempts = 2 => call.log[1] \in {"401", "neterr"}
    /\ (call.attempts = 2 /\ Len(call.log) = 2) => call.phase = "settled"

\* C4 witness: a network error, then a 401 on the retry, and the call is over
ClientNetErrThen401 ==
    /\ call.phase = "settled"
    /\ call.log = <<"neterr", "401">>
    /\ call.attempts = 2

ClientRetryCarriesCurrentToken ==
    \A k \in 2..call.attempts :
        call.log[k - 1] = "401" => call.sent[k] = call.current[k]


----------------------------------------------------------------------------
(* Spec: the chat store, driven through the chat input and the sidebar *)

\* What ask answers in the store's behaviours
AskResponses == {R200A, R401, R403, R404, R422}

\* A sendMessage invocation that awaits chatApi.ask: the content it was given,
\* the currentSession it captured, and its call of the client. An invocation
\* that returned keeps no state.
PendingSend(content, session, c) ==
    [state |-> "pending", content |-> content, session |-> session, call |-> c]

\* The store keeps no record of a call's attempts: what it holds of a pending
\* call is what requestWithRetry goes on from
Forget(c) ==
    [c EXCEPT !.attempts = 0, !.sent = <<>>, !.current = <<>>, !.log = <<>>,
              !.lateFetch = FALSE, !.res = NoResponse]

DoneSend == [state |-> "done", content |-> <<>>, session |-> NoSession, call |-> IdleCall]

\* The completion of a sendMessage invocation, as an observer of the step sees
\* it: which invocation, how it ended ("ok", "error", "notoken"), what ask
\* settled with, and whether the invocation's signal had fired.
Completion(i, snd, c, outcome) ==
    << [id |-> i, content |-> snd.content, outcome |-> outcome,
        result |-> c.result, aborted |-> c.aborted] >>

\* useAuthStore.login: set({token, ...})
Login(t) ==
    /\ t # token
    /\ token' = t
    /\ last' = <<>>
    /\ UNCHANGED <<storeVars, sends, clock, backend, call, text, ops, uiVars>>

\* useAuthStore.clearAuth / logout: set({token: null, ...})
ClearAuth ==
    /\ token # NoToken
    /\ token' = NoToken
    /\ last' = <<>>
    /\ UNCHANGED <<storeVars, sends, clock, backend, call, text, ops, uiVars>>

\* The record POST /api/chat/sessions answers with
ApiNewSession(id, now) ==
    [id |-> id, session_title |-> NullText, created_at |-> now, updated_at |-> now,
     last_message |-> NullText, last_message_at |-> 0]

\* useChatStore.createSession
CreateSession ==
    /\ token # NoToken
    /\ backend < MaxSessions
    /\ LET session == normalizeSession(ApiNewSession(backend + 1, clock)) IN
         /\ sessions' = <<session>> \o sessions
         /\ currentSession' = session
         /\ messages' = <<>>
    /\ backend' = backend + 1
    /\ last' = <<>>
    /\ UNCHANGED <<isLoading, error, abortController, token, sends, clock, call, text, ops, uiVars>>

\* sendMessage, the title of the success set: derived from the question while
\* the captured session is still called 'New Chat'
SendTitle(cap, content) ==
    IF cap.title = NewChat THEN generateSessionTitle(content) ELSE cap.title

\* (variant: the failure is recorded but the flags are left as they are)
SendFailsKeepsLoading(i, c, err) ==
    /\ error' = SendErrorMessage(err)
    /\ sends' = [sends EXCEPT ![i] = DoneSend]
    /\ last' = Completion(i, sends[i], c, "error")
    /\ UNCHANGED <<sessions, currentSession, messages, isLoading, abortController, clock>>

\* sendMessage, the success set (state => {...}) after ask resolved with data
SendSucceeds(i, c, data) ==
    LET snd   == sends[i]
        now   == clock + 1
        title == SendTitle(snd.session, snd.content)
        touch(s) == [s EXCEPT !.title = title, !.updated_at = now,
                              !.last_message = snd.content, !.last_message_at = now]
    IN  /\ messages' = Append(messages, AssistantMessage(data, now))
        /\ isLoading' = FALSE
        /\ sessions' = [ k \in 1..Len(sessions) |->
                           IF sessions[k].id = snd.session.id
                           THEN touch(sessions[k]) ELSE sessions[k] ]
        /\ currentSession' = touch(snd.session)
        /\ abortController' = 0
        /\ clock' = now
        /\ sends' = [sends EXCEPT ![i] = DoneSend]
        /\ last' = Completion(i, snd, c, "ok")
        /\ UNCHANGED error

\* sendMessage, the catch block: err was thrown by ask or by the code after it
SendFails(i, c, err) ==
    /\ isLoading' = FALSE
    /\ abortController' = 0
    /\ error' = SendErrorMessage(err)
    /\ sends' = [sends EXCEPT ![i] = DoneSend]
    /\ last' = Completion(i, sends[i], c, "error")
    /\ UNCHANGED <<sessions, currentSession, messages, clock>>

\* data.query_id read on the null a 204 resolves to
NullDataError == [name |-> "TypeError", message |-> "Cannot read properties of null",
                  status |-> 0, correlationId |-> ""]

\* sendMessage from `await chatApi.ask(...)` on: c is the call after a step of
\* the client; the invocation goes on once the call has settled
AfterAsk(i, c) ==
    IF c.phase # "settled"
    THEN /\ sends' = [sends EXCEPT ![i].call = Forget(c)]
         /\ last' = <<>>
         /\ UNCHANGED <<storeVars, clock>>
    ELSE IF c.result.kind = "ok" /\ ~c.result.isNull
         THEN SendSucceeds(i, c, c.result.data)
         ELSE SendFails(i, c, IF c.result.kind = "ok" THEN NullDataError
                              ELSE c.result.err)

\* useChatStore.sendMessage up to `await chatApi.ask(...)`
sendMessage(content) ==
    LET cap == currentSession
        now == clock + 1
        id  == Len(sends) + 1
    IN  /\ cap # NoSession
        /\ Len(sends) < MaxSends
        /\ messages' = Append(messages, UserMessage(content, now))
        /\ isLoading' = TRUE
        /\ abortController' = id
        /\ error' = NoError
        /\ clock' = now
        /\ IF token = NoToken
           THEN /\ sends' = Append(sends, DoneSend)
                /\ last' = Completion(id, PendingSend(content, cap, IdleCall),
                                      IdleCall, "notoken")
           ELSE /\ sends' = Append(sends, PendingSend(content, cap,
                                                       Forget(StartCall(token, FALSE))))
                /\ last' = <<>>
        /\ UNCHANGED <<sessions, currentSession, token, backend, call, text, ops, uiVars>>

\* ChatInput.handleSubmit: the form is submitted with the text typed
HandleSubmit(q) ==
    /\ ~IsBlank(q)
    /\ ~isLoading
    /\ currentSession # NoSession
    /\ sendMessage(q)

\* The last message of the log whose role is user
HasUserMessage == \E k \in DOMAIN messages : messages[k].role = "user"
LastUserMessage ==
    messages[CHOOSE k \in DOMAIN messages :
                /\ messages[k].role = "user"
                /\ \A j \in DOMAIN messages : messages[j].role = "user" => j <= k]

\* The Regenerate button (shown while not loading and the log is not empty),
\* then useChatStore.regenerate
Regenerate ==
    /\ ~isLoading
    /\ Len(messages) > 0
    /\ HasUserMessage
    /\ sendMessage(LastUserMessage.content)

\* The Stop button (shown while loading), then useChatStore.stopGeneration:
\* controller?.abort(), set({isLoading: false, abortController: null}). A fetch
\* under way rejects on the abort, and the catch block of its sendMessage runs
\* before any other event.
StopGeneration ==
    /\ isLoading
    /\ LET id == abortController IN
         IF id # 0 /\ sends[id].state = "pending"
         THEN LET c == OnAbort(sends[id].call) IN
                IF c.phase = "settled"
                THEN AfterAsk(id, c)
                ELSE /\ sends' = [sends EXCEPT ![id].call = Forget(c)]
                     /\ isLoading' = FALSE
                     /\ abortController' = 0
                     /\ last' = <<>>
                     /\ UNCHANGED <<sessions, currentSession, messages, error, clock>>
         ELSE /\ isLoading' = FALSE
              /\ abortController' = 0
              /\ last' = <<>>
              /\ UNCHANGED <<sessions, currentSession, messages, error, sends, clock>>
    /\ UNCHANGED <<token, backend, call, text, ops, uiVars>>

\* The fetch of send i resolves with a response
AskRespond(i, res) ==
    /\ sends[i].state = "pending"
    /\ sends[i].call.phase = "fetching"
    /\ AfterAsk(i, OnResponse(sends[i].call, res))
    /\ UNCHANGED <<token, backend, call, text, ops, uiVars>>

\* The fetch of send i rejects with a network error
AskNetworkError(i) ==
    /\ sends[i].state = "pending"
    /\ sends[i].call.phase = "fetching"
    /\ AfterAsk(i, OnThrow(sends[i].call, NetworkError))
    /\ UNCHANGED <<token, backend, call, text, ops, uiVars>>

\* The retry delay of send i ran out
AskTimer(i) ==
    /\ sends[i].state = "pending"
    /\ sends[i].call.phase = "delay"
    /\ AfterAsk(i, AfterDelay(sends[i].call, token))
    /\ UNCHANGED <<token, backend, call, text, ops, uiVars>>

Next ==
    \/ \E t \in LoginTokens : Login(t)
    \/ ClearAuth
    \/ CreateSession
    \/ \E q \in Questions : HandleSubmit(q)
    \/ Regenerate
    \/ StopGeneration
    \/ \E i \in DOMAIN sends : \E res \in AskResponses : AskRespond(i, res)
    \/ \E i \in DOMAIN sends : AskNetworkError(i)
    \/ \E i \in DOMAIN sends : AskTimer(i)

Spec == Init /\ [][Next]_vars


----------------------------------------------------------------------------
(* SpecTitle: generateSessionTitle over the texts typed from TitleAlphabet *)

TitleAlphabet == {"a", "_", " "}

\* One more character is typed
TypeChar(c) ==
    /\ Len(text) < MaxTextLen
    /\ text' = Append(text, c)
    /\ UNCHANGED <<storeVars, envVars, call, ops, uiVars>>

TitleNext == \E c \in TitleAlphabet : TypeChar(c)

SpecTitle == Init /\ [][TitleNext]_vars

\* The title as the claim words it, for tokens that are the maximal runs of
\* the characters of class: the runs as pairs of positions, taken in order of
\* their start; the first 4 of them when there are 3 or more, else all; each
\* with its first character upper-cased, joined by single spaces; 'New Chat'
\* when there is none.
RunsOf(t, class) ==
    { r \in (1..Len(t)) \X (1..Len(t)) :
        /\ r[1] <= r[2]
        /\ \A k \in r[1]..r[2] : t[k] \in class
        /\ r[1] = 1 \/ t[r[1] - 1] \notin class
        /\ r[2] = Len(t) \/ t[r[2] + 1] \notin class }

NthRun(runs, n) ==
    CHOOSE r \in runs : Cardinality({ q \in runs : q[1] < r[1] }) = n - 1

Capitalized(w) == [ k \in 1..Len(w) |-> IF k = 1 THEN ToUpperCase(w[k]) ELSE w[k] ]

RECURSIVE SpacedWords(_, _, _, _)
SpacedWords(t, runs, n, keep) ==
    LET r == NthRun(runs, n)
        w == Capitalized(SubSeq(t, r[1], r[2])) IN
    IF n = keep THEN w ELSE w \o <<" ">> \o SpacedWords(t, runs, n + 1, keep)

ClaimedTitle(t, class) ==
    LET runs == RunsOf(t, class)
        n    == Cardinality(runs)
        keep == IF n >= 3 THEN Min(4, n) ELSE n IN
    IF n = 0 THEN NewChat ELSE SpacedWords(t, runs, 1, keep)

Alphanumerics  == Letters \cup Digits
WordCharacters == Letters \cup Digits \cup {"_"}

\* C10 as stated: the title is built from the maximal runs of alphanumeric
\* characters of the text.
TitleFromAlphanumericRuns ==
    generateSessionTitle(text) = ClaimedTitle(text, Alphanumerics)

\* C10 as amended: the title is built from the maximal runs of word
\* characters (letters, digits and the underscore) of the text: the first 4
\* runs when there are 3 or more, else all, each with its first character
\* upper-cased, joined by single spaces; 'New Chat' when there is none.
TitleFromWordRuns ==
    generateSessionTitle(text) = ClaimedTitle(text, WordCharacters)

\* C10 witness: a text of five tokens, the first of them an underscore
TitleOfFiveTokens ==
    /\ Len(MatchWords(text)) = 5
    /\ text[1] = "_"
    /\ Len(MatchWords(generateSessionTitle(text))) = 4


----------------------------------------------------------------------------
(* The claims about the chat store *)

InFlight(i) == sends[i].state = "pending" /\ sends[i].call.phase = "fetching"

\* C1: two ask requests of the store are never in flight together.
SingleAskInFlight ==
    \A i, j \in DOMAIN sends : (InFlight(i) /\ InFlight(j)) => i = j

\* C2: when a send whose request was cancelled by stopGeneration has settled,
\* the store is Idle, no assistant message was appended for it and error is null.
StoppedSendRecordsNoError ==
    (last # <<>> /\ last[1].aborted) =>
        /\ last[1].outcome # "ok"
        /\ ~isLoading
        /\ abortController = 0
        /\ error = NoError

\* C7: the step in which a send starts appends the user message and leaves the
\* session list and the active session as they are; the step in which the send
\* fails with an error that is no cancellation leaves the message log (no
\* roll-back, no assistant message), the session list and the active session
\* as they are, records an error and ends with isLoading false and
\* abortController null.
FailedSendKeepsLogAndSessions ==
    [][ /\ Len(sends') = Len(sends) + 1 =>
            /\ Len(messages') = Len(messages) + 1
            /\ SubSeq(messages', 1, Len(messages)) = messages
            /\ messages'[Len(messages')].role = "user"
            /\ sessions' = sessions
            /\ currentSession' = currentSession
        /\ (last' # <<>> /\ last'[1].outcome = "error" /\ ~last'[1].aborted) =>
            /\ messages' = messages
            /\ sessions' = sessions
            /\ currentSession' = currentSession
            /\ ~isLoading'
            /\ abortController' = 0
            /\ error' # NoError ]_vars

\* C7 witness: a send failed on a 403; its question is the last message of the log
FailedSendSeen ==
    /\ last # <<>>
    /\ last[1].outcome = "error"
    /\ last[1].result.err.status = 403
    /\ messages # <<>>
    /\ messages[Len(messages)].role = "user"
    /\ messages[Len(messages)].content = last[1].content
    /\ currentSession.last_message = NullText

\* C8: the error string a failed send records: 404 gives the no-documents
\* message, 403 the no-access message, any other 4xx but 401 the message the
\* backend sent, a transport failure the generic message.
SendErrorChosenByFailure ==
    (last # <<>> /\ last[1].outcome = "error" /\ ~last[1].aborted) =>
        LET e == last[1].result.err IN
        /\ e.status = 404 => error = MsgNoDocuments
        /\ e.status = 403 => error = MsgNoAccess
        /\ (e.status >= 400 /\ e.status <= 499 /\ e.status \notin {401, 403, 404})
              => error = e.message
        /\ e.status = 0 => error = MsgSendFailed

WhatIsTheRefund ==
    <<"W","h","a","t"," ","I","s"," ","T","h","e"," ","R","e","f","u","n","d">>

\* C9: the step in which a send succeeds appends exactly one assistant message
\* with the answer, the citations (collection_name as collection) and the
\* query id of the response; the entry of the send's session and currentSession
\* get the question as last_message and the time of the step as updated_at and
\* last_message_at, with one title; the other entries stay; isLoading becomes
\* false and abortController null. A session still called 'New Chat' that was
\* asked QRefund is then called 'What Is The Refund'.
SuccessfulSendEffect ==
    [][ (last' # <<>> /\ last'[1].outcome = "ok") =>
          LET d   == last'[1].result.data
              q   == last'[1].content
              cap == sends[last'[1].id].session
              m   == messages'[Len(messages')]
              cur == currentSession' IN
          /\ Len(messages') = Len(messages) + 1
          /\ SubSeq(messages', 1, Len(messages)) = messages
          /\ m.role = "assistant"
          /\ m.content = d.answer
          /\ m.query_id = d.query_id
          /\ Len(m.citations) = Len(d.citations)
          /\ \A k \in DOMAIN d.citations :
                /\ m.citations[k].id = d.citations[k].id
                /\ m.citations[k].filename = d.citations[k].filename
                /\ m.citations[k].page = d.citations[k].page
                /\ m.citations[k].snippet = d.citations[k].snippet
                /\ m.citations[k].collection = d.citations[k].collection_name
                /\ m.citations[k].url = d.citations[k].url
          /\ ~isLoading'
          /\ abortController' = 0
          /\ cur.id = cap.id
          /\ cur.last_message = q
          /\ cur.updated_at = clock' /\ cur.last_message_at = clock'
          /\ clock' > clock /\ cur.updated_at > cap.updated_at
          /\ Len(sessions') = Len(sessions)
          /\ \A k \in DOMAIN sessions :
                IF sessions[k].id = cap.id
                THEN /\ sessions'[k].id = cap.id
                     /\ sessions'[k].title = cur.title
                     /\ sessions'[k].last_message = q
                     /\ sessions'[k].updated_at = cur.updated_at
                     /\ sessions'[k].last_message_at = cur.last_message_at
                ELSE sessions'[k] = sessions[k]
          /\ (cap.title = NewChat /\ q = QRefund) => cur.title = WhatIsTheRefund ]_vars

\* C9 witness: the first send of a new session, QRefund, was answered with DataA
RefundAnswered ==
    /\ last # <<>>
    /\ last[1].outcome = "ok"
    /\ last[1].content = QRefund
    /\ Len(messages) = 2
    /\ messages[1].role = "user" /\ messages[1].content = QRefund
    /\ messages[2].role = "assistant" /\ Len(messages[2].citations) = 2
    /\ sessions # <<>>
    /\ sessions[1].title = WhatIsTheRefund
    /\ sessions[1].last_message = QRefund
    /\ currentSession = sessions[1]


----------------------------------------------------------------------------
(* SpecSessions: the chat store driven through the sidebar and the chat    *)
(* input. A session operation awaits one call of the client at a time; of  *)
(* that call the store sees only what it settles with, and that is what    *)
(* this part draws from the backend's possible answers.                    *)

MaxOps == 2   \* session operations and sends started in one behaviour

\* Another operation or send may start
Budget == Len(ops) + Len(sends) < MaxOps

\* What an awaited call of chatApi settles with: its payload, or the thrown value
OpOk(payload) == [kind |-> "ok", payload |-> payload, err |-> NoErr]
OpErr(e)      == [kind |-> "err", payload |-> <<>>, err |-> e]

\* The failures of a call: a 500 through handleResponse, or fetch rejecting twice
OpFailures == { OpErr(handleResponse(R500).err), OpErr(NetworkError) }

\* Sessions of earlier visits, as GET /api/chat/sessions lists them
TitleTax == <<"T","a","x">>
ApiStored12 ==
    [id |-> 12, session_title |-> TitleTax, created_at |-> 0, updated_at |-> 0,
     last_message |-> QHi, last_message_at |-> 0]
ApiStored11 ==
    [id |-> 11, session_title |-> NullText, created_at |-> 0, updated_at |-> 0,
     last_message |-> NullText, last_message_at |-> 0]
ListAnswers == { <<>>, <<ApiStored12, ApiStored11>> }

\* ChatHistoryEntry; query_id 0 stands for an absent query_id, feedback is
\* "up", "down", "null" or "undefined" (the field is absent)
HistoryEntry(id, query, response, created, sessionId, queryId, feedback) ==
    [id |-> id, query |-> query, response |-> response, created_at |-> created,
     session_id |-> sessionId, query_id |-> queryId, feedback |-> feedback]

QPunct == <<"?","!">>

\* The exchanges the backend has stored: two of session 12, one of session 11,
\* and for a session created in the behaviour none or one (the model does not
\* follow what the backend stores of the sends)
Entry1 == HistoryEntry(1, QHi, "Hello.", 0, 12, 7, "up")
Entry2 == HistoryEntry(2, QPunct, "Please ask a question.", 0, 12, 0, "undefined")
Entry3 == HistoryEntry(3, QHi, "Hello again.", 0, 11, 8, "down")
EntryOfNew(id) == HistoryEntry(100 + id, QHi, "Hello.", 0, id, 0, "null")

\* What GET /api/chat/sessions/{id}/history answers
HistoryAnswers(id) ==
    IF id = 12 THEN { <<Entry1, Entry2>> }
    ELSE IF id = 11 THEN { <<Entry3>> }
    ELSE { <<>>, <<EntryOfNew(id)>> }

\* loadMessages, the first push of the forEach: the question of an entry
EntryQuestion(e) ==
    [id |-> ToString(e.id) \o "-q", content |-> e.query, role |-> "user",
     timestamp |-> e.created_at, citations |-> <<>>, query_id |-> "",
     feedback |-> "null"]

\* (variant: the feedback of the entry is not carried over)
EntryAnswerNoFeedback(e) ==
    [id |-> IF e.query_id # 0 THEN ToString(e.query_id) ELSE ToString(e.id) \o "-a",
     content |-> e.response, role |-> "assistant", timestamp |-> e.created_at,
     citations |-> <<>>,
     query_id |-> IF e.query_id # 0 THEN ToString(e.query_id) ELSE "",
     feedback |-> "null"]

\* loadMessages, the second push: the answer of an entry. entry.query_id ?
\* String(entry.query_id) : ..., entry.feedback ?? null
EntryAnswer(e) ==
    [id |-> IF e.query_id # 0 THEN ToString(e.query_id) ELSE ToString(e.id) \o "-a",
     content |-> e.response, role |-> "assistant", timestamp |-> e.created_at,
     citations |-> <<>>,
     query_id |-> IF e.query_id # 0 THEN ToString(e.query_id) ELSE "",
     feedback |-> IF e.feedback = "undefined" THEN "null" ELSE e.feedback]

\* loadMessages, the array the forEach builds from the history
HistoryMessages(history) ==
    [ k \in 1..(2 * Len(history)) |->
        IF k % 2 = 1 THEN EntryQuestion(history[(k + 1) \div 2])
                     ELSE EntryAnswer(history[k \div 2]) ]

\* An invocation of a session operation that awaits a call: its kind
\* ("loadSessions", "selectSession", "renameSession", "deleteSession"), its
\* sessionId and title arguments, and the call it awaits ("listing",
\* "creating", "history", "remote"). An invocation that returned keeps no state.
PendingOp(kind, session, title, phase) ==
    [kind |-> kind, session |-> session, title |-> title, phase |-> phase]

DoneOp == PendingOp("done", 0, NullText, "done")

\* The promise an operation returns: every operation wraps its awaits in
\* try/catch (selectSession awaits loadMessages, which does), and the catch
\* blocks only log, so the promise is fulfilled whatever the call settled with
OpPromise(settled) == "fulfilled"

\* ChatSidebar.handleSaveEdit / handleDeleteSession: the toast after the await
SidebarToast(kind, promise) ==
    IF promise # "fulfilled" THEN ""
    ELSE IF kind = "renameSession" THEN "Session renamed"
    ELSE IF kind = "deleteSession" THEN "Session deleted"
    ELSE ""

\* The completion of a session operation, as an observer of the step sees it:
\* which invocation, how it ended ("op-ok", "op-failed", "op-notoken",
\* "op-unknown"), what its last call settled with, the promise and the toast
OpCompletion(i, op, outcome, settled) ==
    << [id |-> i, content |-> op, outcome |-> outcome,
        result |-> [settled |-> settled, promise |-> OpPromise(settled),
                    toast |-> SidebarToast(op.kind, OpPromise(settled))],
        aborted |-> FALSE] >>

\* Operation i returned
OpReturns(i, outcome, settled) ==
    /\ ops' = [ops EXCEPT ![i] = DoneOp]
    /\ last' = OpCompletion(i, ops[i], outcome, settled)

opFrame == <<isLoading, error, abortController, token, sends, clock, call, text, uiVars>>

\* loadMessages up to `await chatApi.getHistory(sessionId)`, as the tail of
\* operation op: without a token it returns at once
StartLoadMessages(i, op) ==
    IF token = NoToken
    THEN /\ ops' = [ k \in 1..i |-> IF k = i THEN DoneOp ELSE ops[k] ]
         /\ last' = OpCompletion(i, op, "op-notoken", OpOk(<<>>))
    ELSE /\ ops' = [ k \in 1..i |-> IF k = i THEN [op EXCEPT !.phase = "history"]
                                    ELSE ops[k] ]
         /\ last' = <<>>

\* Chat page mounts: useChatStore.loadSessions up to `await listSessions()`
LoadSessions ==
    /\ token # NoToken
    /\ Budget
    /\ ops' = Append(ops, PendingOp("loadSessions", 0, NullText, "listing"))
    /\ last' = <<>>
    /\ UNCHANGED <<sessions, currentSession, messages, backend, opFrame>>

\* loadSessions after listSessions settled
ListRespond(i, settled) ==
    /\ ops[i].kind = "loadSessions" /\ ops[i].phase = "listing"
    /\ IF settled.kind = "err"
       THEN /\ OpReturns(i, "op-failed", settled)
            /\ UNCHANGED <<sessions, currentSession>>
       ELSE IF Len(settled.payload) = 0
       THEN /\ ops' = [ops EXCEPT ![i].phase = "creating"]
            /\ last' = <<>>
            /\ UNCHANGED <<sessions, currentSession>>
       ELSE LET list == [ k \in 1..Len(settled.payload) |->
                            normalizeSession(settled.payload[k]) ] IN
            /\ sessions' = list
            /\ currentSession' = list[1]
            /\ StartLoadMessages(i, [ops[i] EXCEPT !.session = list[1].id])
    /\ UNCHANGED <<messages, backend, opFrame>>

\* loadSessions after its createSession call settled (the list was empty)
CreateRespond(i, settled) ==
    /\ ops[i].kind = "loadSessions" /\ ops[i].phase = "creating"
    /\ IF settled.kind = "err"
       THEN /\ OpReturns(i, "op-failed", settled)
            /\ UNCHANGED <<sessions, currentSession, messages, backend>>
       ELSE /\ backend < MaxSessions
            /\ LET session == normalizeSession(settled.payload) IN
                 /\ sessions' = <<session>>
                 /\ currentSession' = session
                 /\ messages' = <<>>
            /\ backend' = backend + 1
            /\ OpReturns(i, "op-ok", settled)
    /\ UNCHANGED opFrame

\* loadMessages after getHistory settled: set({messages}), or the catch block
HistoryRespond(i, settled) ==
    /\ ops[i].phase = "history"
    /\ IF settled.kind = "err"
       THEN /\ OpReturns(i, "op-failed", settled)
            /\ UNCHANGED messages
       ELSE /\ messages' = HistoryMessages(settled.payload)
            /\ OpReturns(i, "op-ok", settled)
    /\ UNCHANGED <<sessions, currentSession, backend, opFrame>>

\* The ids selectSession is called with: the listed sessions and an unknown one
UnknownId == 99
SelectIds == { sessions[k].id : k \in DOMAIN sessions } \cup {UnknownId}

\* sessions.find(s => s.id === sessionId)
HasSession(id) == \E k \in DOMAIN sessions : sessions[k].id = id
FindSession(id) ==
    sessions[CHOOSE k \in DOMAIN sessions :
                /\ sessions[k].id = id
                /\ \A j \in DOMAIN sessions : sessions[j].id = id => k <= j]

\* useChatStore.selectSession up to the await of loadMessages
SelectSession(id) ==
    /\ Budget
    /\ LET i  == Len(ops) + 1
           op == PendingOp("selectSession", id, NullText, "start") IN
         IF HasSession(id)
         THEN /\ currentSession' = FindSession(id)
              /\ StartLoadMessages(i, op)
         ELSE /\ ops' = Append(ops, DoneOp)
              /\ last' = OpCompletion(i, op, "op-unknown", OpOk(<<>>))
              /\ UNCHANGED currentSession
    /\ UNCHANGED <<sessions, messages, backend, opFrame>>

\* The titles typed in the sidebar's edit box
RenameTitles == { <<"P","l","a","n">> }

\* useChatStore.renameSession up to `await chatApi.renameSession(...)`
RenameSession(id, title) ==
    /\ token # NoToken
    /\ Budget
    /\ HasSession(id)
    /\ ops' = Append(ops, PendingOp("renameSession", id, title, "remote"))
    /\ last' = <<>>
    /\ UNCHANGED <<sessions, currentSession, messages, backend, opFrame>>

\* (variant: the rename is applied whatever the call settled with)
RenameAppliesOnFailure(i, settled) ==
    /\ ops[i].kind = "renameSession" /\ ops[i].phase = "remote"
    /\ LET id == ops[i].session
           title == ops[i].title IN
         /\ sessions' = [ k \in 1..Len(sessions) |->
                            IF sessions[k].id = id
                            THEN [sessions[k] EXCEPT !.title = title]
                            ELSE sessions[k] ]
         /\ currentSession' = IF currentSession # NoSession /\ currentSession.id = id
                              THEN [currentSession EXCEPT !.title = title]
                              ELSE currentSession
    /\ OpReturns(i, IF settled.kind = "err" THEN "op-failed" ELSE "op-ok", settled)
    /\ UNCHANGED <<messages, backend, opFrame>>

\* renameSession after the call settled: the set, or the catch block
RenameRespond(i, settled) ==
    /\ ops[i].kind = "renameSession" /\ ops[i].phase = "remote"
    /\ IF settled.kind = "err"
       THEN /\ OpReturns(i, "op-failed", settled)
            /\ UNCHANGED <<sessions, currentSession>>
       ELSE LET id == ops[i].session
                title == ops[i].title IN
            /\ sessions' = [ k \in 1..Len(sessions) |->
                               IF sessions[k].id = id
                               THEN [sessions[k] EXCEPT !.title = title]
                               ELSE sessions[k] ]
            /\ currentSession' = IF currentSession # NoSession /\ currentSession.id = id
                                 THEN [currentSession EXCEPT !.title = title]
                                 ELSE currentSession
            /\ OpReturns(i, "op-ok", settled)
    /\ UNCHANGED <<messages, backend, opFrame>>

\* useChatStore.deleteSession up to `await chatApi.deleteSession(...)`
DeleteSession(id) ==
    /\ token # NoToken
    /\ Budget
    /\ HasSession(id)
    /\ ops' = Append(ops, PendingOp("deleteSession", id, NullText, "remote"))
    /\ last' = <<>>
    /\ UNCHANGED <<sessions, currentSession, messages, backend, opFrame>>

\* sessions.filter(s => s.id !== sessionId)
RECURSIVE FilterOut(_, _)
FilterOut(list, id) ==
    IF Len(list) = 0 THEN <<>>
    ELSE IF list[1].id = id THEN FilterOut(Tail(list), id)
    ELSE <<list[1]>> \o FilterOut(Tail(list), id)

\* (variant: the log is kept when the active session is deleted)
DeleteAppliesKeepsLog(id) ==
    /\ sessions' = FilterOut(sessions, id)
    /\ currentSession' = IF currentSession # NoSession /\ currentSession.id = id
                         THEN NoSession ELSE currentSession
    /\ messages' = messages

\* deleteSession, the set after the call succeeded
DeleteApplies(id) ==
    /\ sessions' = FilterOut(sessions, id)
    /\ currentSession' = IF currentSession # NoSession /\ currentSession.id = id
                         THEN NoSession ELSE currentSession
    /\ messages' = IF currentSession # NoSession /\ currentSession.id = id
                   THEN <<>> ELSE messages

\* deleteSession after the call settled: the set, or the catch block
DeleteRespond(i, settled) ==
    /\ ops[i].kind = "deleteSession" /\ ops[i].phase = "remote"
    /\ IF settled.kind = "err"
       THEN /\ OpReturns(i, "op-failed", settled)
            /\ UNCHANGED <<sessions, currentSession, messages>>
       ELSE /\ DeleteApplies(ops[i].session)
            /\ OpReturns(i, "op-ok", settled)
    /\ UNCHANGED <<backend, opFrame>>

\* What the user types in the chat input in these behaviours
SessionQuestions == {QPunct, QHi}

\* What ask answers in these behaviours
SessionAskResponses == {R200A, R500}

SessionsNext ==
    \/ \E t \in LoginTokens : Login(t)
    \/ ClearAuth
    \/ CreateSession
    \/ LoadSessions
    \/ \E i \in DOMAIN ops : \E a \in ListAnswers : ListRespond(i, OpOk(a))
    \/ \E i \in DOMAIN ops : \E f \in OpFailures : ListRespond(i, f)
    \/ \E i \in DOMAIN ops : \E f \in OpFailures \cup {OpOk(ApiNewSession(backend + 1, clock))} :
          CreateRespond(i, f)
    \/ \E i \in DOMAIN ops : \E h \in HistoryAnswers(ops[i].session) :
          HistoryRespond(i, OpOk(h))
    \/ \E i \in DOMAIN ops : \E f \in OpFailures : HistoryRespond(i, f)
    \/ \E id \in SelectIds : SelectSession(id)
    \/ \E id \in SelectIds : \E t \in RenameTitles : RenameSession(id, t)
    \/ \E i \in DOMAIN ops : \E f \in OpFailures \cup {OpOk(<<>>)} : RenameRespond(i, f)
    \/ \E id \in SelectIds : DeleteSession(id)
    \/ \E i \in DOMAIN ops : \E f \in OpFailures \cup {OpOk(<<>>)} : DeleteRespond(i, f)
    \/ \E q \in SessionQuestions : Budget /\ HandleSubmit(q)
    \/ \E i \in DOMAIN sends : \E res \in SessionAskResponses : AskRespond(i, res)

SpecSessions == Init /\ [][SessionsNext]_vars


----------------------------------------------------------------------------
(* The claims about titles, the sidebar's operations and history loads *)

\* A send succeeded in the step
SendSucceeded == last' # <<>> /\ last'[1].outcome = "ok"

\* C11 (as claimed): when a send succeeds for a session whose title in the
\* store is no longer 'New Chat' at that moment, the step does not replace
\* that title with the title derived from the send's question.
RenamedTitleSurvivesSend ==
    [][ SendSucceeded =>
          \A k \in DOMAIN sessions :
              sessions[k].title # NewChat =>
                  ~ /\ sessions'[k].title # sessions[k].title
                    /\ sessions'[k].title = generateSessionTitle(last'[1].content) ]_vars

\* C12 (as claimed): the title is derived on a session's first exchange only:
\* when a send succeeds for a session that already had a successful exchange
\* (its last_message is set), the step does not set the title from the
\* question of that send.
TitleDerivedOnFirstExchangeOnly ==
    [][ SendSucceeded =>
          \A k \in DOMAIN sessions :
              (sessions[k].last_message # NullText /\ sessions[k].title = NewChat) =>
                  ~ /\ sessions'[k].title # sessions[k].title
                    /\ sessions'[k].title = generateSessionTitle(last'[1].content) ]_vars

\* Operation kind returned in the step, with the given outcome
OpEnded(kind, outcome) ==
    /\ last' # <<>>
    /\ last'[1].outcome = outcome
    /\ last'[1].content.kind = kind

\* C13: the step in which deleteSession(id) applies its deletion removes the
\* entries with that id and keeps the others in order; when id is the active
\* session, currentSession becomes null and the log empty; otherwise
\* currentSession and messages stay; isLoading, error and abortController stay.
DeleteSessionEffect ==
    [][ OpEnded("deleteSession", "op-ok") =>
          LET id     == last'[1].content.session
              active == currentSession # NoSession /\ currentSession.id = id
          IN  /\ sessions' = SelectSeq(sessions, LAMBDA x : x.id # id)
              /\ active => (currentSession' = NoSession /\ messages' = <<>>)
              /\ ~active => (currentSession' = currentSession /\ messages' = messages)
              /\ isLoading' = isLoading
              /\ error' = error
              /\ abortController' = abortController ]_vars

\* C13 witness: the active session was deleted while another stays listed
ActiveSessionDeleted ==
    /\ last # <<>>
    /\ last[1].outcome = "op-ok"
    /\ last[1].content.kind = "deleteSession"
    /\ currentSession = NoSession
    /\ messages = <<>>
    /\ Len(sessions) = 1
    /\ sessions[1].id # last[1].content.session

\* A renameSession or deleteSession invocation started in the step
RenameOrDeleteStarted ==
    /\ Len(ops') = Len(ops) + 1
    /\ ops'[Len(ops')].kind \in {"renameSession", "deleteSession"}

\* C14: renameSession and deleteSession change nothing of sessions,
\* currentSession and messages before their remote call has succeeded: neither
\* the step that starts them nor the step in which the call fails changes them.
FailedRenameOrDeleteChangesNothing ==
    [][ ( \/ RenameOrDeleteStarted
          \/ OpEnded("renameSession", "op-failed")
          \/ OpEnded("deleteSession", "op-failed") ) =>
          /\ sessions' = sessions
          /\ currentSession' = currentSession
          /\ messages' = messages ]_vars

\* C14 witness: a rename of a listed session failed
RenameFailed ==
    /\ last # <<>>
    /\ last[1].outcome = "op-failed"
    /\ last[1].content.kind = "renameSession"
    /\ \E k \in DOMAIN sessions : sessions[k].id = last[1].content.session

\* C15 (as claimed): when the remote call of renameSession or deleteSession
\* fails, the promise the operation returned is rejected and the sidebar
\* reports no success.
FailedRenameOrDeleteRejects ==
    ( /\ last # <<>>
      /\ last[1].outcome = "op-failed"
      /\ last[1].content.kind \in {"renameSession", "deleteSession"} ) =>
        /\ last[1].result.promise = "rejected"
        /\ last[1].result.toast = ""

\* The stored exchanges whose question the log shows (the id of a loaded
\* question is the id of its exchange followed by -q)
EntriesShown(log) ==
    { e \in {Entry1, Entry2, Entry3} \cup { EntryOfNew(n) : n \in 1..MaxSessions } :
        \E k \in DOMAIN log : log[k].id = ToString(e.id) \o "-q" }

\* The log of the next state shows no stored exchange of a session other than
\* the active one
NoOtherSessionShown ==
    \A e \in EntriesShown(messages') : e.session_id = currentSession'.id

\* C16 (as claimed): loadSessions, for a caller that stays authenticated. When
\* the list is not empty the store's list becomes the backend's list in order
\* with its first entry active, and when the operation returns the log is the
\* history the backend answered with (when the history fetch failed, at least
\* no exchange of a session other than the active one is left in the log);
\* when the list is empty and the session is created, it is the only entry,
\* active, with an empty log; whatever fails, the promise is fulfilled.
LoadSessionsEffect ==
    [][ /\ \A i \in DOMAIN ops :
              ( /\ ops[i].kind = "loadSessions" /\ ops[i].phase = "listing"
                /\ i \in DOMAIN ops' /\ ops'[i].phase = "history" ) =>
                  /\ \E a \in ListAnswers :
                        /\ Len(a) > 0
                        /\ sessions' = [ k \in 1..Len(a) |-> normalizeSession(a[k]) ]
                  /\ currentSession' = sessions'[1]
        /\ ( OpEnded("loadSessions", "op-ok") /\ last'[1].content.phase = "history" ) =>
              messages' = HistoryMessages(last'[1].result.settled.payload)
        /\ ( OpEnded("loadSessions", "op-failed") /\ last'[1].content.phase = "history" ) =>
              NoOtherSessionShown
        /\ ( OpEnded("loadSessions", "op-ok") /\ last'[1].content.phase = "creating" ) =>
              /\ Len(sessions') = 1
              /\ currentSession' = sessions'[1]
              /\ currentSession'.title = NewChat
              /\ messages' = <<>>
        /\ OpEnded("loadSessions", "op-failed") =>
              last'[1].result.promise = "fulfilled" ]_vars

\* C17 (as claimed): when selectSession(id) for a listed id returns, the log
\* is the history the backend answered with; when the history fetch failed,
\* no exchange of a session other than the active one is left in the log; for
\* an unknown id the store is left as it was.
SelectSessionReplacesLog ==
    [][ /\ OpEnded("selectSession", "op-ok") =>
              messages' = HistoryMessages(last'[1].result.settled.payload)
        /\ OpEnded("selectSession", "op-failed") => NoOtherSessionShown
        /\ OpEnded("selectSession", "op-unknown") =>
              /\ sessions' = sessions
              /\ currentSession' = currentSession
              /\ messages' = messages ]_vars

\* A history load applied its result in the step
HistoryApplied ==
    /\ last' # <<>>
    /\ last'[1].outcome = "op-ok"
    /\ last'[1].content.phase = "history"

\* C18: the log loadMessages sets for a history of N exchanges has 2N
\* messages; message 2i-1 is the question of exchange i (role user) and
\* message 2i its answer (role assistant), which carries the query id of the
\* exchange when it has one and its feedback; nothing of the earlier log stays.
LoadMessagesRebuildsLog ==
    [][ HistoryApplied =>
          LET h == last'[1].result.settled.payload IN
          /\ Len(messages') = 2 * Len(h)
          /\ \A i \in 1..Len(h) :
                LET q == messages'[2 * i - 1]
                    a == messages'[2 * i]
                IN  /\ q.role = "user"
                    /\ q.content = h[i].query
                    /\ q.id = ToString(h[i].id) \o "-q"
                    /\ a.role = "assistant"
                    /\ a.content = h[i].response
                    /\ h[i].query_id # 0 =>
                          (a.query_id = ToString(h[i].query_id) /\ a.id = a.query_id)
                    /\ h[i].query_id = 0 =>
                          (a.query_id = "" /\ a.id = ToString(h[i].id) \o "-a")
                    /\ h[i].feedback \in {"up", "down"} => a.feedback = h[i].feedback
                    /\ h[i].feedback \notin {"up", "down"} => a.feedback = "null" ]_vars

\* C18 witness: a history of two exchanges was loaded; the first answer has a
\* query id and a thumbs-up, the second has neither
TwoExchangesLoaded ==
    /\ last # <<>>
    /\ last[1].outcome = "op-ok"
    /\ last[1].content.phase = "history"
    /\ last[1].result.settled.payload = <<Entry1, Entry2>>
    /\ Len(messages) = 4
    /\ messages[2].query_id = "7" /\ messages[2].feedback = "up"
    /\ messages[4].id = "2-a" /\ messages[4].feedback = "null"

\* C19 (as claimed): no send starts while a history load for the active
\* session is unresolved.
SendWaitsForHistoryLoad ==
    [][ Len(sends') = Len(sends) + 1 =>
          ~ \E i \in DOMAIN ops :
                /\ ops[i].phase = "history"
                /\ ops[i].session = currentSession.id ]_vars

\* The user messages of a log
UserMessageCount(log) == Cardinality({ k \in DOMAIN log : log[k].role = "user" })

\* C20 (as claimed): regenerate leaves the number of user messages of the log
\* as it is.
RegenerateAddsNoUserMessage ==
    [][ Regenerate => UserMessageCount(messages') = UserMessageCount(messages) ]_vars

----------------------------------------------------------------------------
(* SpecFeedback: one MessageBubble and the feedback given on it. Of the     *)
(* call chatApi.sendFeedback makes, the bubble sees only what it settles    *)
(* with.                                                                    *)

\* The assistant messages a bubble is rendered for: loaded from a history,
\* or the answer of a send
BubbleMessages ==
    { EntryAnswer(Entry1), EntryAnswer(Entry2), EntryAnswer(Entry3),
      AssistantMessage(DataA, 1), AssistantMessage(DataB, 1) }

FeedbackTypes == {"up", "down"}

\* An invocation of handleFeedback: its argument and where it stands
\* ("pending" on sendFeedback, "sent", "failed", or "returned" at once)
FeedbackCall(type, state) == [type |-> type, state |-> state]

\* What sendFeedback settles with
FeedbackAnswers == { OpOk(<<>>) } \cup OpFailures

\* MessageBubble is rendered for a message: useState(message.feedback ?? null)
MountBubble(m) ==
    /\ ~ bubble.mounted
    /\ bubble' = [mounted |-> TRUE, query_id |-> m.query_id,
                  feedback |-> m.feedback, calls |-> <<>>, toast |-> "none"]
    /\ UNCHANGED <<storeVars, envVars, call, text, ops, settings, storage>>

\* handleFeedback(type) up to its await: a message without query_id returns,
\* any other awaits chatApi.sendFeedback(message.query_id, type)
HandleFeedback(type) ==
    /\ bubble.mounted
    /\ Len(bubble.calls) < MaxFeedback
    /\ bubble' = [bubble EXCEPT !.calls =
                     Append(@, FeedbackCall(type,
                         IF bubble.query_id = "" THEN "returned" ELSE "pending"))]
    /\ UNCHANGED <<storeVars, envVars, call, text, ops, settings, storage>>

\* handleFeedback after its await: setFeedback(type) and a toast, or the
\* catch block's toast
FeedbackRespond(i, settled) ==
    /\ i \in DOMAIN bubble.calls
    /\ bubble.calls[i].state = "pending"
    /\ IF settled.kind = "ok"
       THEN bubble' = [bubble EXCEPT !.calls[i].state = "sent",
                                     !.feedback = bubble.calls[i].type,
                                     !.toast = "Feedback sent"]
       ELSE bubble' = [bubble EXCEPT !.calls[i].state = "failed",
                                     !.toast = "Failed to send feedback"]
    /\ UNCHANGED <<storeVars, envVars, call, text, ops, settings, storage>>

FeedbackNext ==
    \/ \E m \in BubbleMessages : MountBubble(m)
    \/ \E type \in FeedbackTypes : HandleFeedback(type)
    \/ \E i \in 1..MaxFeedback, settled \in FeedbackAnswers : FeedbackRespond(i, settled)

SpecFeedback == Init /\ [][FeedbackNext]_vars

----------------------------------------------------------------------------
(* SpecSettings: the settings of the chat store and their saved copy, from  *)
(* whatever an earlier visit left in localStorage                           *)

\* The partial records the settings panel's sliders and switches and the
\* profile page's save button pass to updateSettings
SettingsUpdates ==
    { [topK |-> 100], [topK |-> 2000],
      [mmr |-> 5], [mmr |-> 100],
      [temperature |-> 0], [temperature |-> 150],
      [showImages |-> FALSE], [showImages |-> TRUE],
      [compactMode |-> TRUE], [compactMode |-> FALSE],
      [topK |-> 300, temperature |-> 100] }

\* updateSettings saving the partial record it was given, not the merged one
updateSettingsSavesUpdate(newSettings) ==
    /\ settings' = Spread(settings, newSettings)
    /\ storage' = Blob(JsonStringify(newSettings))
    /\ UNCHANGED <<storeVars, envVars, call, text, ops, bubble>>

\* updateSettings(newSettings): merge, save the merged record, set it
updateSettings(newSettings) ==
    /\ settings' = Spread(settings, newSettings)
    /\ storage' = Blob(JsonStringify(Spread(settings, newSettings)))
    /\ UNCHANGED <<storeVars, envVars, call, text, ops, bubble>>

\* resetSettings(): set({ settings: getStoredSettings() })
resetSettings ==
    /\ settings' = getStoredSettings(storage)
    /\ UNCHANGED <<storeVars, envVars, call, text, ops, storage, bubble>>

SettingsNext ==
    \/ \E newSettings \in SettingsUpdates : updateSettings(newSettings)
    \/ resetSettings

SpecSettings == InitStored /\ [][SettingsNext]_vars

----------------------------------------------------------------------------
(* SpecStore: sendMessage called on the store by any component, with any    *)
(* text, and not only by the chat input after its own tests                 *)

\* The texts sendMessage is called with: '', two spaces, and a question
SendTexts == { <<>>, <<" ", " ">>, QHi }

\* What the backend answers an ask with here
StoreAskResponses == {R200A, R500}

StoreNext ==
    \/ \E t \in LoginTokens : Login(t)
    \/ CreateSession
    \/ \E content \in SendTexts : sendMessage(content)
    \/ StopGeneration
    \/ \E i \in DOMAIN sends : \E res \in StoreAskResponses : AskRespond(i, res)

SpecStore == Init /\ [][StoreNext]_vars

----------------------------------------------------------------------------
(* The claims about feedback, settings, the client's outcomes and sends *)

\* The latest invocation of handleFeedback on the bubble
LatestFeedback == bubble.calls[Len(bubble.calls)]

\* C21 (as claimed): feedback is local-then-remote. While the remote call of
\* the latest feedback is unresolved the marker already has the new value, and
\* when that call has failed the failure is reported and the marker still has
\* the new value; a message without a query id accepts no feedback.
FeedbackLocalThenRemote ==
    bubble.calls # <<>> =>
        /\ LatestFeedback.state \in {"pending", "failed"} =>
               bubble.feedback = LatestFeedback.type
        /\ LatestFeedback.state = "failed" => bubble.toast = "Failed to send feedback"
        /\ bubble.query_id = "" => LatestFeedback.state = "returned"

\* The fields the saved item has no member for
AbsentFromStorage(raw) ==
    IF raw.kind = "text" THEN (DOMAIN baseSettings) \ (DOMAIN raw.members)
    ELSE DOMAIN baseSettings

\* C22: settings round trip. After every step, reloading the settings from
\* storage gives the in-memory settings field by field, and every field the
\* saved item lacks has its default; an update leaves each field it names at
\* the value given and every other field as it was, and saves the whole
\* merged record.
SettingsRoundTrip ==
    [][ /\ getStoredSettings(storage') = settings'
        /\ \A f \in AbsentFromStorage(storage') : settings'[f] = baseSettings[f]
        /\ \A newSettings \in SettingsUpdates :
              updateSettings(newSettings) =>
                 /\ \A f \in DOMAIN newSettings : settings'[f] = newSettings[f]
                 /\ \A f \in (DOMAIN settings) \ (DOMAIN newSettings) :
                        settings'[f] = settings[f]
                 /\ storage'.kind = "text"
                 /\ DOMAIN storage'.members = DOMAIN baseSettings
                 /\ \A f \in DOMAIN baseSettings :
                        storage'.members[f] = StringifyValue(f, settings'[f]) ]_vars

\* C22 witness: an earlier visit left only topK 8; since then mmr was set to
\* 0.05 and compactMode switched on, and the saved item holds all five fields
SettingsSavedAfterUpdates ==
    /\ settings = [topK |-> 800, mmr |-> 5, temperature |-> 70,
                   showImages |-> TRUE, compactMode |-> TRUE]
    /\ storage.kind = "text"
    /\ storage.members.mmr = <<"0", ".", "0", "5">>
    /\ storage.members.topK = <<"8">>
    /\ storage.members.temperature = <<"0", ".", "7">>
    /\ storage.members.compactMode = TrueText

\* The call has settled on a response: its last fetch resolved, and the
\* response was not retried
SettledOnResponse ==
    /\ call.phase = "settled"
    /\ call.log # <<>>
    /\ call.log[Len(call.log)] \notin {"abort", "neterr"}

\* The structured error of a non-2xx response: the body's message or a
\* generic one, the status, and the X-Request-ID header ("" when absent)
StructuredError(res, r) ==
    /\ r.kind = "err"
    /\ r.err.name = ""
    /\ r.err.message = (IF res.json /\ res.message # "" THEN res.message
                        ELSE IF res.json THEN "Request failed"
                        ELSE "Network error")
    /\ r.err.status = res.status
    /\ r.err.correlationId = res.requestId

BlankSendIsNoOp ==
    [][ \A content \in SendTexts :
            (IsBlank(content) /\ sendMessage(content)) =>
                UNCHANGED <<messages, sends, isLoading, error>> ]_vars

\* C25 (as claimed): the store is never left in Sending with no request
\* outstanding: whenever isLoading is true some sendMessage invocation is
\* still awaiting its ask, and abortController is not null.
NeverSendingWithoutRequest ==
    isLoading =>
        /\ \E i \in DOMAIN sends : sends[i].state = "pending"
        /\ abortController # 0

----------------------------------------------------------------------------
(* The claims about sends that complete after the store has moved on *)

\* The session the sendMessage invocation completing in this step captured
\* when it started
CompletingSession == sends[last'[1].id].session

\* C26 (as claimed): when a send issued in session A succeeds while another
\* session B is the active one, its answer is not appended to the displayed
\* log and currentSession stays B.
SendStaysInItsSession ==
    [][ (/\ SendSucceeded
         /\ currentSession # NoSession
         /\ currentSession.id # CompletingSession.id)
        => (messages' = messages /\ currentSession' = currentSession) ]_vars

\* C27 (as claimed): currentSession is null or an entry of the session list;
\* in particular, when a send completes whose session was deleted while it
\* was pending (no session is active and the list no longer has it), that
\* session does not become the active one again and the log gains no message.
DeletedSessionStaysInactive ==
    [][ (/\ SendSucceeded
         /\ currentSession = NoSession
         /\ ~ HasSession(CompletingSession.id))
        => (/\ currentSession' = NoSession
            /\ messages' = messages) ]_vars

\* C28 (as claimed): while the ask of a send is outstanding and has not been
\* cancelled, isLoading is true and abortController is the controller of
\* that very send; the settlement of an earlier send does not take them away.
OutstandingAskIsCancellable ==
    \A i \in DOMAIN sends :
        (sends[i].state = "pending" /\ ~ sends[i].call.aborted) =>
            (isLoading /\ abortController = i)

\* The log shows stored exchanges, all of them of the active session
ActiveHistoryShown ==
    /\ currentSession # NoSession
    /\ EntriesShown(messages) # {}
    /\ \A e \in EntriesShown(messages) : e.session_id = currentSession.id

\* C29 (as claimed): the latest selection wins for history loads. When the
\* last outstanding history load applies its result, and the log already
\* showed the history of the active session (the fetch of the later selection
\* resolved first), the log still shows the active session's history and not
\* that of the session selected before.
LatestSelectionWins ==
    [][ (/\ HistoryApplied
         /\ \A i \in DOMAIN ops' : ops'[i].phase # "history"
         /\ ActiveHistoryShown)
        => (currentSession' = currentSession /\ NoOtherSessionShown) ]_vars

\* C30 (as claimed): a rename that completed while a send was pending
\* survives the completion of that send. When the send succeeds and the
\* session's title in the list is a title given by a rename, different from
\* the title the session had when the send started, the list entry keeps
\* that title and so does currentSession when it is this session.
RenameSurvivesSend ==
    [][ SendSucceeded =>
          \A k \in DOMAIN sessions :
              (/\ sessions[k].id = CompletingSession.id
               /\ sessions[k].title \in RenameTitles
               /\ sessions[k].title # CompletingSession.title) =>
                  /\ sessions'[k].title = sessions[k].title
                  /\ currentSession'.id = sessions[k].id =>
                         currentSession'.title = sessions[k].title ]_vars

====
